---- MODULE Spec2Model ----
(***************************************************************************)
(* State-machine model of SnowflakeStageExporter                           *)
(* (src/snowflake_stage_exporter/__init__.py) and of the helper chunk      *)
(* (src/snowflake_stage_exporter/utils.py).                                *)
(*                                                                         *)
(* Python dicts keep insertion order and the code iterates over them, so   *)
(* a dict is modelled as a sequence of <<key, value>> pairs in insertion   *)
(* order.  One action stands for one call of the public API; the calls it  *)
(* makes on the connector are logged, in order, in the variable calls.     *)
(***************************************************************************)
EXTENDS Naturals, Sequences, FiniteSets

\* ------------------------------------------------------------------ bounds
\* Number of records that may be written to buffers in one session.
MaxExports == 3

\* Number of records a spider passes to the pipeline before it closes: enough
\* for a destination to lose its last valid column, open a buffer again, and
\* for another destination to open one after it.
MaxPipelineItems == 4

\* Number of files staged for table A in the sessions with many files: one
\* more than the COPY chunk size.
MaxBulkFiles == 1001

\* ------------------------------------------------------------ ordered dict
DictKeys(d) == [i \in 1..Len(d) |-> d[i][1]]

DictHas(d, k) == \E i \in 1..Len(d) : d[i][1] = k

DictIdx(d, k) == CHOOSE i \in 1..Len(d) : d[i][1] = k

DictGet(d, k) == d[DictIdx(d, k)][2]

DictGetDefault(d, k, default) == IF DictHas(d, k) THEN DictGet(d, k) ELSE default

\* d[k] = v : replaces in place, or appends a new key at the end
DictSet(d, k, v) ==
    IF DictHas(d, k) THEN [d EXCEPT ![DictIdx(d, k)] = <<k, v>>]
    ELSE Append(d, <<k, v>>)

DictPop(d, k) == SelectSeq(d, LAMBDA e : e[1] # k)

RECURSIVE JoinStr(_, _)
\* sep.join(strs)
JoinStr(strs, sep) ==
    IF Len(strs) = 0 THEN ""
    ELSE IF Len(strs) = 1 THEN strs[1]
    ELSE strs[1] \o sep \o JoinStr(Tail(strs), sep)

RECURSIVE Flatten(_)
\* concatenation of a sequence of sequences
Flatten(ss) == IF Len(ss) = 0 THEN <<>> ELSE ss[1] \o Flatten(Tail(ss))

RECURSIVE SumLen(_)
\* total number of characters of a sequence of strings
SumLen(strs) == IF Len(strs) = 0 THEN 0 ELSE Len(strs[1]) + SumLen(Tail(strs))

SeqToSet(q) == {q[i] : i \in 1..Len(q)}

\* ------------------------------------------------------------------ values
\* A value is modelled by its Python type; one representative per type:
\*   null None, bool True, int 1, float 1.1, str "x", list [], dict {},
\*   bytes b"" (not JSON serializable).
ValueKinds == {"null", "bool", "int", "float", "str", "list", "dict", "tuple", "bytes"}

\* json.dumps of the representative value of each type
JsonValue(kind) ==
    CASE kind = "null" -> "null"
      [] kind = "bool" -> "true"
      [] kind = "int" -> "1"
      [] kind = "float" -> "1.1"
      [] kind = "str" -> "\"x\""
      [] kind = "list" -> "[]"
      [] kind = "dict" -> "{}"
      [] kind = "tuple" -> "[]"

\* json.dumps raises TypeError on anything else than the JSON types; a tuple is
\* written as an array
JsonSerializable(kind) ==
    kind \in {"null", "bool", "int", "float", "str", "list", "dict", "tuple"}

\* An item is a dict field -> value: a sequence of <<field, kind>> pairs.
ItemSerializable(item) == \A i \in 1..Len(item) : JsonSerializable(item[i][2])

\* json.dumps(item_dict): '{"a": 1, "b": 1.1}'
json_dumps(item) ==
    "{" \o JoinStr([i \in 1..Len(item) |->
                      "\"" \o item[i][1] \o "\": " \o JsonValue(item[i][2])], ", ")
        \o "}"

\* SnowflakeStageExporter.typemap, keyed by the exact Python type of the value
typemap(kind) ==
    CASE kind = "dict" -> "OBJECT"
      [] kind = "list" -> "ARRAY"
      [] kind = "int" -> "NUMBER"
      [] kind = "float" -> "NUMBER"
      [] kind = "bool" -> "BOOLEAN"
      [] kind = "str" -> "VARCHAR"

\* the keys of typemap: any other type, tuple included, is a KeyError
InTypemap(kind) == kind \in {"dict", "list", "int", "float", "bool", "str"}

multitype == "VARIANT"

\* -------------------------------------------------------------- the inputs
Tables == {"A", "B"}

\* The records of the sessions: {"a": 1} (a line of 9 bytes) and {"a": "x"}
\* (11 bytes); a table that receives both has no valid column.
Items ==
    { << <<"a", "int">> >>,
      << <<"a", "str">> >> }

\* The records of the sessions that exercise the column resolution.
TypedItems ==
    { << <<"a", "int">> >>,
      << <<"a", "float">> >>,
      << <<"a", "str">>, <<"b", "null">> >>,
      << <<"b", "int">>, <<"a", "null">> >> }

ExporterEvent == {"finish", "flush", "never"}

\* the default stage "@~"
DefaultStage == << "@", "~" >>

\* --------------------------------------------------------------- the state
VARIABLES
    create_tables_on,          \* configuration, fixed at construction
    populate_tables_on,
    clear_stage_on,
    allow_varying_value_types,
    ignore_unexpected_fields,
    max_file_size,
    auto_compress,             \* connector: PUT stores the file as <name>.gz
    stage,                     \* the stage identifier, as its characters
    conn,                      \* the connection: "none", "open" or "closed"
    predefined_column_types,   \* {table_path: {column: type}}
    table_buffers,             \* {table_path: lines written to the tmp file}
    exported_fpaths,           \* {table_path: [fpath in stage, ...]}
    recorded_coltypes,         \* {table_path: {field: set of types}}
    calls,                     \* connector calls of the last API call, in order
    raised,                    \* exception raised by the last API call, or "none"
    last_op,                   \* the last API call and its arguments
    arrived,                   \* {table_path: items written by export_item so far}
    uploaded,                  \* every file ever PUT: [fpath, lines], in order
    removed,                   \* fpaths for which a REMOVE was issued
    exports_used               \* export_item calls that changed the exporter

vars == << create_tables_on, populate_tables_on, clear_stage_on,
           allow_varying_value_types, ignore_unexpected_fields, max_file_size,
           auto_compress, predefined_column_types, table_buffers,
           exported_fpaths, recorded_coltypes, calls, raised, last_op,
           arrived, uploaded, removed, stage, conn, exports_used >>

config == << create_tables_on, populate_tables_on, clear_stage_on,
             allow_varying_value_types, ignore_unexpected_fields,
             max_file_size, auto_compress, stage >>

\* ----------------------------------------------------------- sequencing
\* Body applied to the value of v: the statements that follow an assignment.
With(v, Body(_)) == CHOOSE out \in { Body(x) : x \in {v} } : TRUE

\* The mutable part of the exporter and of its environment as one record, so
\* that the methods below are functions from state to state.  put_error is the
\* connector's behaviour during the call: TRUE when its PUT raises.
Cur ==
    [ predefined_column_types |-> predefined_column_types,
      table_buffers |-> table_buffers,
      exported_fpaths |-> exported_fpaths,
      recorded_coltypes |-> recorded_coltypes,
      calls |-> <<>>,
      raised |-> "none",
      put_error |-> FALSE,
      conn |-> conn,
      arrived |-> arrived,
      uploaded |-> uploaded,
      removed |-> removed ]

Raise(s, exc) == [s EXCEPT !.raised = exc]

Call(s, c) == [s EXCEPT !.calls = Append(@, c)]

\* Mutation of fires_on: a trigger fires on every event unless it is "never".
fires_on_unless_never(trigger, event) == trigger # "never"

\* if self._create_tables_on == "flush": ... (and the five tests like it)
fires_on(trigger, event) == trigger = event

\* ------------------------------------------------------------------ chunk
\* utils.chunk: the body of the for loop for one element x; st holds the
\* chunks yielded so far and the chunk under construction
chunk_step(st, x, n) ==
    IF Len(st.current_chunk) + 1 = n
    THEN [yielded |-> Append(st.yielded, Append(st.current_chunk, x)),
          current_chunk |-> <<>>]
    ELSE [st EXCEPT !.current_chunk = Append(st.current_chunk, x)]

RECURSIVE chunk_loop(_, _, _)
\* utils.chunk: the for loop, the body applied to the elements in order (the
\* first half of the iterable, then the second half, starting from the state
\* the first half leaves)
chunk_loop(iterable, n, st) ==
    IF Len(iterable) = 0 THEN st
    ELSE IF Len(iterable) = 1 THEN chunk_step(st, iterable[1], n)
    ELSE With(chunk_loop(SubSeq(iterable, 1, Len(iterable) \div 2), n, st),
              LAMBDA half : chunk_loop(SubSeq(iterable, (Len(iterable) \div 2) + 1,
                                              Len(iterable)), n, half))

\* utils.chunk without the final "if current_chunk: yield"
chunk_without_rest(iterable, n) ==
    chunk_loop(iterable, n, [yielded |-> <<>>, current_chunk |-> <<>>]).yielded

chunk(iterable, n) ==
    With(chunk_loop(iterable, n, [yielded |-> <<>>, current_chunk |-> <<>>]),
         LAMBDA st : IF Len(st.current_chunk) > 0
                     THEN Append(st.yielded, st.current_chunk)
                     ELSE st.yielded)

\* the chunk size populate_table passes to chunk
CopyChunkSize == 1000

\* ------------------------------------------------------- column resolution
RECURSIVE record_fields_loop(_, _)
\* record_field_types: the loop over item_dict.items(), up to its end or to
\* the KeyError of typemap[type(v)], which is raised after
\* recorded.setdefault(k, set()) has added the field
record_fields_loop(recorded, item) ==
    IF Len(item) = 0 THEN [recorded |-> recorded, raised |-> "none"]
    ELSE IF Head(item)[2] = "null"
    THEN record_fields_loop(recorded, Tail(item))
    ELSE IF ~InTypemap(Head(item)[2])
    THEN [recorded |-> DictSet(recorded, Head(item)[1],
                               DictGetDefault(recorded, Head(item)[1], {})),
          raised |-> "KeyError"]
    ELSE record_fields_loop(
             DictSet(recorded, Head(item)[1],
                     DictGetDefault(recorded, Head(item)[1], {})
                         \cup {typemap(Head(item)[2])}),
             Tail(item))

\* Mutation of record_field_types: the types recorded for the table so far are
\* replaced by those of this record.
record_field_types_afresh(s, table_path, item_dict) ==
    IF s.raised # "none" THEN s
    ELSE With(record_fields_loop(<<>>, item_dict), LAMBDA r :
         [s EXCEPT !.recorded_coltypes = DictSet(@, table_path, r.recorded),
                   !.raised = r.raised])

record_field_types(s, table_path, item_dict) ==
    IF s.raised # "none" THEN s
    ELSE With(record_fields_loop(DictGetDefault(s.recorded_coltypes, table_path, <<>>),
                                 item_dict),
              LAMBDA r :
         [s EXCEPT !.recorded_coltypes = DictSet(@, table_path, r.recorded),
                   !.raised = r.raised])

RECURSIVE resolve_loop(_, _)
\* get_column_types: the loop over recorded_coltypes.items()
resolve_loop(columns, recorded) ==
    IF Len(recorded) = 0 THEN columns
    ELSE IF DictHas(columns, Head(recorded)[1])
    THEN resolve_loop(columns, Tail(recorded))
    ELSE IF Cardinality(Head(recorded)[2]) = 1
    THEN resolve_loop(Append(columns,
                             << Head(recorded)[1],
                                CHOOSE ty \in Head(recorded)[2] : TRUE >>),
                      Tail(recorded))
    ELSE IF allow_varying_value_types
    THEN resolve_loop(Append(columns, << Head(recorded)[1], multitype >>),
                      Tail(recorded))
    ELSE resolve_loop(columns, Tail(recorded))

\* Mutation of returns_predefined: the predefined mapping is never returned
\* as it is.
returns_predefined_never(columns) == FALSE

\* get_column_types: "if columns and self._ignore_unexpected_fields"
returns_predefined(columns) == Len(columns) > 0 /\ ignore_unexpected_fields

\* Mutation of no_valid_columns: an empty column set is accepted.
no_valid_columns_never(columns) == FALSE

\* get_column_types: "if not columns"
no_valid_columns(columns) == Len(columns) = 0

\* get_column_types returns [st, columns]: columns is the very dict stored in
\* predefined_column_types when the table has an entry there, so what the loop
\* adds to it stays in predefined_column_types.
get_column_types(s, table_path) ==
    With(DictGetDefault(s.predefined_column_types, table_path, <<>>),
         LAMBDA columns :
    IF returns_predefined(columns)
    THEN [st |-> s, columns |-> columns]
    ELSE
    With(resolve_loop(columns,
                      DictGetDefault(s.recorded_coltypes, table_path, <<>>)),
         LAMBDA resolved :
    With(IF DictHas(s.predefined_column_types, table_path)
         THEN [s EXCEPT !.predefined_column_types =
                            DictSet(@, table_path, resolved)]
         ELSE s,
         LAMBDA s1 :
    IF no_valid_columns(resolved)
    THEN [st |-> Raise(s1, "SnowflakeStageExporterError"), columns |-> resolved]
    ELSE [st |-> s1, columns |-> resolved])))

\* ------------------------------------------------------------ table actions
create_table(s, table_path) ==
    IF s.raised # "none" THEN s
    ELSE
    With(get_column_types(s, table_path), LAMBDA r :
    IF r.st.raised # "none" THEN r.st
    ELSE Call(r.st, [op |-> "CREATE", table |-> table_path, cols |-> r.columns]))

RECURSIVE copy_loop(_, _, _, _)
\* populate_table: one COPY per chunk
copy_loop(s, table_path, cols, chunks) ==
    IF Len(chunks) = 0 THEN s
    ELSE copy_loop(Call(s, [op |-> "COPY", table |-> table_path, cols |-> cols,
                            files |-> Head(chunks)]),
                   table_path, cols, Tail(chunks))

populate_table(s, table_path) ==
    IF s.raised # "none" THEN s
    ELSE IF ~DictHas(s.exported_fpaths, table_path) THEN Raise(s, "KeyError")
    ELSE
    With(DictGet(s.exported_fpaths, table_path), LAMBDA all_fpaths :
    With(get_column_types(s, table_path), LAMBDA r :
    IF r.st.raised # "none" THEN r.st
    ELSE copy_loop(r.st, table_path, DictKeys(r.columns),
                   chunk(all_fpaths, CopyChunkSize))))

\* Mutation of clear_stage: the given list is ignored and every exported
\* fpath is removed.
clear_stage_everything(s, fpaths) ==
    IF s.raised # "none" THEN s
    ELSE [s EXCEPT !.calls =
                       Append(@, [op |-> "REMOVE",
                                  files |-> Flatten([i \in 1..Len(s.exported_fpaths) |->
                                                        s.exported_fpaths[i][2]])]),
                   !.removed =
                       @ \cup SeqToSet(Flatten([i \in 1..Len(s.exported_fpaths) |->
                                                   s.exported_fpaths[i][2]]))]

\* clear_stage(fpaths) with an explicit list
clear_stage(s, fpaths) ==
    IF s.raised # "none" THEN s
    ELSE IF Len(fpaths) > 0
    THEN [s EXCEPT !.calls = Append(@, [op |-> "REMOVE", files |-> fpaths]),
                   !.removed = @ \cup SeqToSet(fpaths)]
    ELSE s

\* clear_stage() : every exported fpath of every table
clear_stage_all(s) ==
    IF s.raised # "none" THEN s
    ELSE clear_stage(s, Flatten([i \in 1..Len(s.exported_fpaths) |->
                                    s.exported_fpaths[i][2]]))

\* ------------------------------------------------------------------ flush
fpath_for_table(table_path, batch_n) ==
    [prefix |-> table_path, fname |-> [batch_n |-> batch_n, gz |-> FALSE]]

\* _put_file: the PUT statement, then prefix + "/" + the name the connector
\* reports (the requested one, with ".gz" appended when it compresses)
put_file(s, fname, prefix, content) ==
    With([prefix |-> prefix, fname |-> [fname EXCEPT !.gz = auto_compress]],
         LAMBDA stored :
    IF s.put_error
    THEN [st |-> [s EXCEPT !.calls = Append(@, [op |-> "PUT", fname |-> fname,
                                                prefix |-> prefix]),
                           !.raised = "ConnectorError"],
          fpath |-> stored]
    ELSE [st |-> [s EXCEPT !.calls = Append(@, [op |-> "PUT", fname |-> fname,
                                                prefix |-> prefix]),
                           !.uploaded = Append(@, [fpath |-> stored,
                                                   lines |-> content])],
          fpath |-> stored])

\* Mutation of next_batch_n: one counter shared by all the tables.
next_batch_n_shared(s, table_path) == Len(s.uploaded) + 1

\* batch_n = len(self._exported_fpaths.setdefault(table_path, [])) + 1,
\* s being the state after the setdefault
next_batch_n(s, table_path) == Len(DictGet(s.exported_fpaths, table_path)) + 1

\* Mutation of release_buffer: the buffer is kept after the upload.
release_buffer_kept(s, table_path) == s

\* tmp_file.close(); self._table_buffers.pop(table_path)
release_buffer(s, table_path) ==
    [s EXCEPT !.table_buffers = DictPop(@, table_path)]

\* Mutation of record_fpath: the requested name is recorded, not the returned.
record_fpath_requested(s, table_path, fpath) ==
    [s EXCEPT !.exported_fpaths =
                  DictSet(@, table_path,
                          Append(DictGet(@, table_path),
                                 [fpath EXCEPT !.fname.gz = FALSE]))]

\* self._exported_fpaths[table_path].append(fpath)
record_fpath(s, table_path, fpath) ==
    [s EXCEPT !.exported_fpaths =
                  DictSet(@, table_path, Append(DictGet(@, table_path), fpath))]

flush_table_buffer(s, table_path) ==
    IF s.raised # "none" THEN s
    ELSE IF ~DictHas(s.table_buffers, table_path) THEN Raise(s, "KeyError")
    ELSE
    With(DictGet(s.table_buffers, table_path), LAMBDA tmp_file :
    With(IF DictHas(s.exported_fpaths, table_path) THEN s
         ELSE [s EXCEPT !.exported_fpaths = DictSet(@, table_path, <<>>)],
         LAMBDA s1 :
    With(fpath_for_table(table_path, next_batch_n(s1, table_path)),
         LAMBDA requested :
    With(put_file(s1, requested.fname, requested.prefix, tmp_file), LAMBDA put :
    IF put.st.raised # "none" THEN put.st
    ELSE
    With(record_fpath(release_buffer(put.st, table_path), table_path, put.fpath),
         LAMBDA s2 :
    With(IF fires_on(create_tables_on, "flush") THEN create_table(s2, table_path) ELSE s2,
         LAMBDA s3 :
    With(IF fires_on(populate_tables_on, "flush") THEN populate_table(s3, table_path)
         ELSE s3,
         LAMBDA s4 :
    IF fires_on(clear_stage_on, "flush") THEN clear_stage(s4, << put.fpath >>) ELSE s4)))))))

RECURSIVE flush_all_loop(_, _)
flush_all_loop(s, keys) ==
    IF Len(keys) = 0 THEN s
    ELSE flush_all_loop(flush_table_buffer(s, Head(keys)), Tail(keys))

\* for table_path in list(self._table_buffers): flush_table_buffer(table_path)
flush_all_table_buffers(s) == flush_all_loop(s, DictKeys(s.table_buffers))

\* ----------------------------------------------------------------- export
\* Mutation of table_for_item: every record is routed to table A.
table_for_item_fixed(item_dict, table) == "A"

\* table_for_item with the template "{table}" and the keyword table=...
table_for_item(item_dict, table) == table

\* Mutation of should_flush_buffer_for: every write is followed by a flush.
should_flush_buffer_for_always(s, table_path) == TRUE

should_flush_buffer_for(s, table_path) ==
    SumLen(DictGet(s.table_buffers, table_path)) >= max_file_size

\* self._table_buffers[table_path].write(line.encode("utf8"))
buffer_write(s, table_path, line) ==
    [s EXCEPT !.table_buffers =
                  DictSet(@, table_path, Append(DictGet(@, table_path), line))]

\* History: the item whose line export_item has written, per table.
NoteArrival(s, table_path, item_dict) ==
    [s EXCEPT !.arrived =
                  DictSet(@, table_path,
                          Append(DictGetDefault(@, table_path, <<>>), item_dict))]

export_item(s, item_dict, table) ==
    With(table_for_item(item_dict, table), LAMBDA table_path :
    With(IF ~DictHas(s.table_buffers, table_path)
         THEN [s EXCEPT !.table_buffers = DictSet(@, table_path, <<>>)]
         ELSE s,
         LAMBDA s1 :
    IF ~ItemSerializable(item_dict) THEN Raise(s1, "TypeError")
    ELSE
    With(json_dumps(item_dict) \o "\n", LAMBDA line :
    With(NoteArrival(buffer_write(s1, table_path, line), table_path, item_dict),
         LAMBDA s2 :
    With(IF should_flush_buffer_for(s2, table_path)
         THEN flush_table_buffer(s2, table_path) ELSE s2,
         LAMBDA s3 :
    record_field_types(s3, table_path, item_dict))))))

\* ----------------------------------------------------------------- finish
RECURSIVE create_all_loop(_, _)
create_all_loop(s, keys) ==
    IF Len(keys) = 0 THEN s
    ELSE create_all_loop(create_table(s, Head(keys)), Tail(keys))

create_all_tables(s) == create_all_loop(s, DictKeys(s.exported_fpaths))

RECURSIVE populate_all_loop(_, _)
populate_all_loop(s, keys) ==
    IF Len(keys) = 0 THEN s
    ELSE populate_all_loop(populate_table(s, Head(keys)), Tail(keys))

\* Mutation of populate_all_tables: the loop runs over the open buffers.
populate_all_tables_of_buffers(s) == populate_all_loop(s, DictKeys(s.table_buffers))

populate_all_tables(s) == populate_all_loop(s, DictKeys(s.exported_fpaths))

finish_export(s) ==
    With(flush_all_table_buffers(s), LAMBDA s1 :
    With(IF fires_on(create_tables_on, "finish") THEN create_all_tables(s1) ELSE s1,
         LAMBDA s2 :
    With(IF fires_on(populate_tables_on, "finish") THEN populate_all_tables(s2) ELSE s2,
         LAMBDA s3 :
    IF fires_on(clear_stage_on, "finish") THEN clear_stage_all(s3) ELSE s3)))

\* ------------------------------------------------- connection and pipeline
\* close(): self.conn.close()
close(s) ==
    IF s.raised # "none" THEN s
    ELSE Call([s EXCEPT !.conn = "closed"], [op |-> "CLOSE"])

\* __exit__: self.close()
exit(s) == close(s)

\* Mutation of on_spider_close: finish_export is run whatever the reason.
on_spider_close_finishing(s, reason) ==
    close(finish_export(flush_all_table_buffers(s)))

\* SnowflakePipeline.on_spider_close: three calls in a row, an exception of
\* one of them skipping those that follow
on_spider_close(s, reason) ==
    With(flush_all_table_buffers(s), LAMBDA s1 :
    With(IF reason = "finished" THEN finish_export(s1) ELSE s1, LAMBDA s2 :
    close(s2)))

\* ------------------------------------------------------------ specification
\* The flush threshold in bytes of the sessions explored: a line of 11 bytes
\* reaches it exactly and alone, a line of 9 bytes stays in the buffer until
\* another line takes the buffer beyond the threshold.
MaxFileSizes == {11}

\* A threshold no line reaches alone: a flush uploads at least two lines.
BufferedFileSizes == {12}

\* predefined_column_types: none, or one mapping for table A that declares a
\* field the records have and one they do not have.
PredefinedChoices ==
    { <<>>,
      << <<"A", << <<"a", "VARCHAR">>, <<"z", "NUMBER">> >> >> >> }

RECURSIVE TotalLen(_)
\* number of lines held by a {table_path: lines} dict
TotalLen(d) == IF Len(d) = 0 THEN 0 ELSE Len(Head(d)[2]) + TotalLen(Tail(d))

\* what export_item can change in the exporter: the buffers, the staged-file
\* lists, the type records and the predefined mapping
ExporterDicts(s) ==
    << s.table_buffers, s.exported_fpaths, s.recorded_coltypes,
       s.predefined_column_types >>

\* the export_item calls made so far that changed the exporter: those that
\* wrote a line, and those that failed after creating a buffer
ExportsUsed == exports_used

\* __init__ : the state after construction with a valid configuration
InitState ==
    /\ table_buffers = <<>>
    /\ exported_fpaths = <<>>
    /\ recorded_coltypes = <<>>
    /\ calls = <<>>
    /\ raised = "none"
    /\ last_op = [name |-> "init", table |-> ""]
    /\ arrived = <<>>
    /\ uploaded = <<>>
    /\ removed = {}
    /\ exports_used = 0
    /\ stage = DefaultStage
    /\ conn = "open"

\* The state an API call leaves behind; there is an exporter to call only
\* once __init__ has returned, which is when the connection exists.
Install(s, op) ==
    /\ conn # "none"
    /\ predefined_column_types' = s.predefined_column_types
    /\ table_buffers' = s.table_buffers
    /\ exported_fpaths' = s.exported_fpaths
    /\ recorded_coltypes' = s.recorded_coltypes
    /\ calls' = s.calls
    /\ raised' = s.raised
    /\ arrived' = s.arrived
    /\ uploaded' = s.uploaded
    /\ removed' = s.removed
    /\ exports_used' = IF op.name = "export_item" /\ ExporterDicts(s) # ExporterDicts(Cur)
                       THEN exports_used + 1 ELSE exports_used
    /\ conn' = s.conn
    /\ last_op' = op
    /\ UNCHANGED config

Start(put_error) == [Cur EXCEPT !.put_error = put_error]

ExportItemFrom(ItemSet, PutErrors) ==
    \E table \in Tables, item \in ItemSet, put_error \in PutErrors :
        /\ ExportsUsed < MaxExports
        /\ Install(export_item(Start(put_error), item, table),
                   [name |-> "export_item", table |-> table])

FlushAllWith(PutErrors) ==
    \E put_error \in PutErrors :
        Install(flush_all_table_buffers(Start(put_error)),
                [name |-> "flush_all_table_buffers", table |-> ""])

FinishWith(PutErrors) ==
    \E put_error \in PutErrors :
        Install(finish_export(Start(put_error)),
                [name |-> "finish_export", table |-> ""])

\* Sessions under every combination of the three triggers, with the default
\* column options, no predefined column types and a connector that never fails.
InitWith(sizes) ==
    /\ InitState
    /\ create_tables_on \in ExporterEvent
    /\ populate_tables_on \in ExporterEvent
    /\ clear_stage_on \in ExporterEvent
    /\ allow_varying_value_types = FALSE
    /\ ignore_unexpected_fields = TRUE
    /\ max_file_size \in sizes
    /\ auto_compress = FALSE
    /\ predefined_column_types = <<>>

Init == InitWith(MaxFileSizes)

ExportItem == ExportItemFrom(Items, {FALSE})

FlushAllTableBuffers == FlushAllWith({FALSE})

FinishExport == FinishWith({FALSE})

Next == ExportItem \/ FlushAllTableBuffers \/ FinishExport

Spec == Init /\ [][Next]_vars

\* The same sessions with the threshold that no line reaches alone.
InitBuffered == InitWith(BufferedFileSizes)

SpecBuffered == InitBuffered /\ [][Next]_vars

\* Sessions about the column resolution: the default max_file_size, so that
\* nothing is flushed before finish_export, and the default triggers and
\* ignore_unexpected_fields; with and without varying value types allowed,
\* with and without predefined types for table A.
DefaultFileSizes == {1073741824}

InitTypes ==
    /\ InitState
    /\ create_tables_on = "finish"
    /\ populate_tables_on = "finish"
    /\ clear_stage_on = "never"
    /\ allow_varying_value_types \in BOOLEAN
    /\ ignore_unexpected_fields = TRUE
    /\ max_file_size \in DefaultFileSizes
    /\ auto_compress = FALSE
    /\ predefined_column_types \in PredefinedChoices

ExportTyped == ExportItemFrom(TypedItems, {FALSE})

NextTypes == ExportTyped \/ FinishExport

SpecTypes == InitTypes /\ [][NextTypes]_vars

\* The sessions of Spec with a connector that compresses: every PUT stores
\* the file under the requested name followed by ".gz".
InitCompressed ==
    /\ InitState
    /\ create_tables_on \in ExporterEvent
    /\ populate_tables_on \in ExporterEvent
    /\ clear_stage_on \in ExporterEvent
    /\ allow_varying_value_types = FALSE
    /\ ignore_unexpected_fields = TRUE
    /\ max_file_size \in MaxFileSizes
    /\ auto_compress = TRUE
    /\ predefined_column_types = <<>>

SpecCompressed == InitCompressed /\ [][Next]_vars

\* Sessions that export and then finish, under thresholds below, between and
\* above the two line sizes (9 and 11 bytes), with the default triggers.
SizeChoices == {4, 10, 20}

InitSizes ==
    /\ InitState
    /\ create_tables_on = "finish"
    /\ populate_tables_on = "finish"
    /\ clear_stage_on = "never"
    /\ allow_varying_value_types = FALSE
    /\ ignore_unexpected_fields = TRUE
    /\ max_file_size \in SizeChoices
    /\ auto_compress = FALSE
    /\ predefined_column_types = <<>>

\* finish_export ends the session: no record is exported after it
ExportBeforeFinish == last_op.name # "finish_export" /\ ExportItem

NextSizes == ExportBeforeFinish \/ FinishExport

SpecSizes == InitSizes /\ [][NextSizes]_vars

\* The pipeline: process_item for every scraped item, an exception of which
\* the framework logs before going on, then on_spider_close once, with the
\* reason the spider closed for; the connector may fail the uploads of the
\* closing call.
CloseReasons == {"finished", "cancelled", "shutdown"}

\* SnowflakePipeline.process_item
ProcessItem ==
    /\ last_op.name # "on_spider_close"
    /\ \E table \in Tables, item \in Items :
          /\ ExportsUsed < MaxPipelineItems
          /\ Install(export_item(Start(FALSE), item, table),
                     [name |-> "export_item", table |-> table])

OnSpiderClose ==
    /\ last_op.name # "on_spider_close"
    /\ \E reason \in CloseReasons, put_error \in BOOLEAN :
          Install(on_spider_close(Start(put_error), reason),
                  [name |-> "on_spider_close", table |-> "", reason |-> reason,
                   put_error |-> put_error])

NextPipeline == ProcessItem \/ OnSpiderClose

SpecPipeline == Init /\ [][NextPipeline]_vars

\* Sessions of export_item and flush_table_buffer calls in which the connector
\* may fail any upload, over records of 9 and 11 bytes (the threshold is 11)
\* and a record json.dumps rejects, the three triggers being set alike.
FlushItems ==
    { << <<"a", "int">> >>,
      << <<"a", "str">> >>,
      << <<"a", "bytes">> >> }

ExportFlush == ExportItemFrom(FlushItems, BOOLEAN)

FlushTableBuffer ==
    \E table \in Tables, put_error \in BOOLEAN :
        Install(flush_table_buffer(Start(put_error), table),
                [name |-> "flush_table_buffer", table |-> table])

NextFlush == ExportFlush \/ FlushTableBuffer

InitFlush ==
    /\ InitWith(MaxFileSizes)
    /\ populate_tables_on = create_tables_on
    /\ clear_stage_on = create_tables_on

SpecFlush == InitFlush /\ [][NextFlush]_vars

\* Sessions with ignore_unexpected_fields false, with and without predefined
\* column types for table A, in which get_column_types and record_field_types
\* are also called directly; field b is exported as an int and as a str.
ResolveItems ==
    { << <<"a", "int">> >>,
      << <<"b", "int">> >>,
      << <<"b", "str">> >> }

InitResolve ==
    /\ InitState
    /\ create_tables_on = "finish"
    /\ populate_tables_on = "finish"
    /\ clear_stage_on = "never"
    /\ allow_varying_value_types \in BOOLEAN
    /\ ignore_unexpected_fields = FALSE
    /\ max_file_size \in DefaultFileSizes
    /\ auto_compress = FALSE
    /\ predefined_column_types \in PredefinedChoices

MaxResolveExports == 1

ExportResolve ==
    ExportsUsed < MaxResolveExports /\ ExportItemFrom(ResolveItems, {FALSE})

GetColumnTypes ==
    \E table \in Tables :
        Install(get_column_types(Start(FALSE), table).st,
                [name |-> "get_column_types", table |-> table,
                 columns |-> get_column_types(Start(FALSE), table).columns])

\* record_field_types called directly: types recorded with no line written
RecordFieldTypes ==
    \E table \in Tables, item \in ResolveItems :
        Install(record_field_types(Start(FALSE), table, item),
                [name |-> "record_field_types", table |-> table])

NextResolve ==
    ExportResolve \/ RecordFieldTypes \/ GetColumnTypes \/ FinishExport

SpecResolve == InitResolve /\ [][NextResolve]_vars

\* Sessions over records with a null field and with a value json.dumps
\* accepts but typemap has no entry for, the three triggers being set alike.
RecordItems ==
    { << <<"a", "int">> >>,
      << <<"a", "str">>, <<"b", "null">> >>,
      << <<"a", "int">>, <<"b", "tuple">> >> }

ExportRecord == ExportItemFrom(RecordItems, {FALSE})

NextRecord == ExportRecord \/ FlushAllTableBuffers \/ FinishExport

SpecRecord == InitFlush /\ [][NextRecord]_vars

\* The public methods called directly by the user of the exporter, besides
\* export_item, flush_all_table_buffers and finish_export: sessions in which
\* tables are created, populated and the stage cleared by hand and the
\* connection is closed.
\* A file of the stage that this exporter has not uploaded.
ForeignFile == [prefix |-> "aa", fname |-> [batch_n |-> 7, gz |-> FALSE]]

CreateTable ==
    \E table \in Tables :
        Install(create_table(Start(FALSE), table),
                [name |-> "create_table", table |-> table])

PopulateTable ==
    \E table \in Tables :
        Install(populate_table(Start(FALSE), table),
                [name |-> "populate_table", table |-> table])

CreateAllTables ==
    Install(create_all_tables(Start(FALSE)),
            [name |-> "create_all_tables", table |-> ""])

PopulateAllTables ==
    Install(populate_all_tables(Start(FALSE)),
            [name |-> "populate_all_tables", table |-> ""])

\* clear_stage(fpaths) with a list, empty or not, and clear_stage()
ClearStage ==
    \/ \E fpaths \in { <<>>, << ForeignFile >> }
                      \cup { DictGetDefault(exported_fpaths, t, <<>>) : t \in Tables } :
          Install(clear_stage(Start(FALSE), fpaths),
                  [name |-> "clear_stage", table |-> "", fpaths |-> fpaths])
    \/ Install(clear_stage_all(Start(FALSE)),
               [name |-> "clear_stage", table |-> ""])

Close == Install(close(Start(FALSE)), [name |-> "close", table |-> ""])

Exit == Install(exit(Start(FALSE)), [name |-> "__exit__", table |-> ""])

\* tables created and populated by finish_export, every setting of
\* clear_stage_on
InitApi ==
    /\ InitWith(MaxFileSizes)
    /\ create_tables_on = "finish"
    /\ populate_tables_on = "finish"

MaxApiExports == 2

ExportApi == ExportsUsed < MaxApiExports /\ ExportItem

NextApi ==
    \/ ExportApi \/ FlushAllTableBuffers \/ FinishExport
    \/ CreateTable \/ PopulateTable
    \/ CreateAllTables \/ PopulateAllTables \/ ClearStage
    \/ Close \/ Exit

SpecApi == InitApi /\ [][NextApi]_vars

\* ------------------------------------------------------------ construction
\* stage.startswith("@")
startswith_at(chars) == Len(chars) > 0 /\ chars[1] = "@"

\* "/" in stage
has_slash(chars) == \E i \in 1..Len(chars) : chars[i] = "/"

\* Mutation of stage_ok: any stage is accepted.
stage_ok_always(chars) == TRUE

\* the negation of: not stage.startswith("@") or "/" in stage
stage_ok(chars) == startswith_at(chars) /\ ~has_slash(chars)

\* "not v" for a value of predefined_column_types: None or an empty dict
falsy(v) == v.none \/ Len(v.columns) = 0

\* self._predefined_column_types = predefined_column_types or {}, as a list
\* of <<table, value>> with value = [none, columns]
predefined_or_empty(kwarg) == IF kwarg.none THEN <<>> ELSE kwarg.entries

\* __init__ up to create_connection: the exception raised, or "none"
init_raises(kwargs) ==
    IF \E attr \in {"create_tables_on", "populate_tables_on", "clear_stage_on"} :
           kwargs[attr] \notin ExporterEvent
    THEN "ValueError"
    ELSE IF \E i \in 1..Len(predefined_or_empty(kwargs.predefined_column_types)) :
                falsy(predefined_or_empty(kwargs.predefined_column_types)[i][2])
    THEN "ValueError"
    ELSE IF ~stage_ok(kwargs.stage)
    THEN "ValueError"
    ELSE "none"

\* the stored predefined mapping of a valid configuration
stored_predefined(kwargs) ==
    With(predefined_or_empty(kwargs.predefined_column_types), LAMBDA entries :
        [i \in 1..Len(entries) |-> << entries[i][1], entries[i][2].columns >>])

\* The keyword arguments of the constructions explored.
StageChoices ==
    { << "@", "~" >>, << "x" >>, << "x", "/" >>, << "@", "x", "/", "z" >> }

PredefinedKwargs ==
    { [none |-> TRUE, entries |-> <<>>],
      [none |-> FALSE,
       entries |-> << <<"A", [none |-> FALSE,
                              columns |-> << <<"a", "VARCHAR">>, <<"z", "NUMBER">> >>]>> >>],
      [none |-> FALSE,
       entries |-> << <<"test", [none |-> FALSE, columns |-> <<>>]>> >>],
      [none |-> FALSE,
       entries |-> << <<"test", [none |-> TRUE, columns |-> <<>>]>> >>] }

ConfigChoices ==
    [ create_tables_on : {"finish", "flush", ""},
      populate_tables_on : {"finish"},
      clear_stage_on : {"never", "neyvar"},
      stage : StageChoices,
      predefined_column_types : PredefinedKwargs ]

\* Before the constructor is called: no exporter, no connection.
InitNew ==
    /\ create_tables_on = "unset"
    /\ populate_tables_on = "unset"
    /\ clear_stage_on = "unset"
    /\ allow_varying_value_types = FALSE
    /\ ignore_unexpected_fields = TRUE
    /\ max_file_size \in MaxFileSizes
    /\ auto_compress = FALSE
    /\ predefined_column_types = <<>>
    /\ table_buffers = <<>>
    /\ exported_fpaths = <<>>
    /\ recorded_coltypes = <<>>
    /\ calls = <<>>
    /\ raised = "none"
    /\ last_op = [name |-> "new", table |-> ""]
    /\ arrived = <<>>
    /\ uploaded = <<>>
    /\ removed = {}
    /\ exports_used = 0
    /\ stage = <<>>
    /\ conn = "none"

\* SnowflakeStageExporter(**kwargs): ValueError and no exporter, or the
\* connection created and the three dicts empty.
Construct ==
    /\ last_op.name = "new"
    /\ \E kwargs \in ConfigChoices :
          /\ last_op' = [name |-> "__init__", table |-> "", kwargs |-> kwargs]
          /\ raised' = init_raises(kwargs)
          /\ IF init_raises(kwargs) = "none"
             THEN /\ create_tables_on' = kwargs.create_tables_on
                  /\ populate_tables_on' = kwargs.populate_tables_on
                  /\ clear_stage_on' = kwargs.clear_stage_on
                  /\ stage' = kwargs.stage
                  /\ predefined_column_types' = stored_predefined(kwargs)
                  /\ conn' = "open"
                  /\ calls' = << [op |-> "CONNECT"] >>
             ELSE /\ UNCHANGED << create_tables_on, populate_tables_on,
                                  clear_stage_on, stage, predefined_column_types,
                                  conn, calls >>
          /\ UNCHANGED << allow_varying_value_types, ignore_unexpected_fields,
                          max_file_size, auto_compress, table_buffers,
                          exported_fpaths, recorded_coltypes, arrived,
                          uploaded, removed, exports_used >>

NextConfig == Construct \/ ExportItem \/ FinishExport

SpecConfig == InitNew /\ [][NextConfig]_vars

\* Sessions with values of every standing towards json.dumps and typemap:
\* {"a": 1} (9 bytes), {"a": b""} that json.dumps rejects, and {"a": (...)},
\* which json.dumps writes as {"a": []} (10 bytes) and typemap does not know.
\* The three triggers are set alike.
KindItems ==
    { << <<"a", "int">> >>,
      << <<"a", "bytes">> >>,
      << <<"a", "tuple">> >> }

InitKinds ==
    /\ InitWith(MaxFileSizes)
    /\ populate_tables_on = create_tables_on
    /\ clear_stage_on = create_tables_on

ExportKinds == ExportItemFrom(KindItems, {FALSE})

NextKinds == ExportKinds \/ FlushAllTableBuffers \/ FinishExport

SpecKinds == InitKinds /\ [][NextKinds]_vars

\* Sessions with many staged files: with the default triggers, every record
\* is {"a": "x"}, whose line reaches the threshold alone, so every export_item
\* stages one file; table A receives up to MaxBulkFiles records, and table B
\* at most one, as the first record of the session.
BulkItem == << <<"a", "str">> >>

InitBulk ==
    /\ InitState
    /\ create_tables_on = "finish"
    /\ populate_tables_on = "finish"
    /\ clear_stage_on = "never"
    /\ allow_varying_value_types = FALSE
    /\ ignore_unexpected_fields = TRUE
    /\ max_file_size \in MaxFileSizes
    /\ auto_compress = FALSE
    /\ predefined_column_types = <<>>

ExportBulk ==
    \E table \in Tables :
        /\ IF table = "A"
           THEN Len(DictGetDefault(exported_fpaths, table, <<>>)) < MaxBulkFiles
           ELSE exported_fpaths = <<>>
        /\ Install(export_item(Start(FALSE), BulkItem, table),
                   [name |-> "export_item", table |-> table])

NextBulk == ExportBulk \/ FinishExport

SpecBulk == InitBulk /\ [][NextBulk]_vars

\* ------------------------------------------------------------ observations
FilesOf(t) == DictGetDefault(exported_fpaths, t, <<>>)

OpenLines(t) == DictGetDefault(table_buffers, t, <<>>)

ArrivedItems(t) == DictGetDefault(arrived, t, <<>>)

UploadsOf(t) == SelectSeq(uploaded, LAMBDA u : u.fpath.prefix = t)

TimesUploaded(f) == Cardinality({i \in 1..Len(uploaded) : uploaded[i].fpath = f})

\* the lines of a staged file, as uploaded
LinesOfFile(f) ==
    IF TimesUploaded(f) = 0 THEN << "<never uploaded>" >>
    ELSE (CHOOSE u \in SeqToSet(uploaded) : u.fpath = f).lines

StagedLines(t) == Flatten([i \in 1..Len(FilesOf(t)) |-> LinesOfFile(FilesOf(t)[i])])

SerializedLines(items) == [i \in 1..Len(items) |-> json_dumps(items[i]) \o "\n"]

CallsOf(ops) == SelectSeq(calls, LAMBDA c : c.op \in ops)

\* ------------------------------------------------------------------ claims
\* C1: for every destination, the lines of its staged files in batch order
\* followed by the lines of its open buffer are the serialized records exported
\* to it, in arrival order, each exactly once.
C1_RecordsConserved ==
    \A t \in Tables :
        /\ \A i \in 1..Len(FilesOf(t)) : TimesUploaded(FilesOf(t)[i]) = 1
        /\ StagedLines(t) \o OpenLines(t) = SerializedLines(ArrivedItems(t))

\* A destination with a staged file of two lines and a record in its buffer.
C1_Witness ==
    \E t \in Tables :
        /\ Len(FilesOf(t)) >= 1
        /\ Len(LinesOfFile(FilesOf(t)[1])) >= 2
        /\ Len(OpenLines(t)) >= 1
        /\ Len(ArrivedItems(t)) = 3

\* C2: the k-th file staged for a destination carries batch number k, whatever
\* was flushed for the other destinations in between.
C2_BatchNumbers ==
    \A t \in Tables :
        /\ Len(UploadsOf(t)) = Len(FilesOf(t))
        /\ \A k \in 1..Len(FilesOf(t)) :
              /\ FilesOf(t)[k] = UploadsOf(t)[k].fpath
              /\ FilesOf(t)[k].prefix = t
              /\ FilesOf(t)[k].fname.batch_n = k

\* Flushes of two destinations interleaved: A, B, then A again.
C2_Witness ==
    /\ Len(uploaded) = 3
    /\ uploaded[1].fpath.prefix = "A"
    /\ uploaded[2].fpath.prefix = "B"
    /\ uploaded[3].fpath.prefix = "A"
    /\ Len(FilesOf("A")) = 2

\* the trigger that governs a kind of statement
TriggerOf(op) ==
    CASE op = "CREATE" -> create_tables_on
      [] op = "COPY" -> populate_tables_on
      [] op = "REMOVE" -> clear_stage_on

TableActions == {"CREATE", "COPY", "REMOVE"}

HasCall(op) == \E i \in 1..Len(calls) : calls[i].op = op

\* the staged-file reference recorded for the upload of a PUT call
StoredAs(put) == [prefix |-> put.prefix, fname |-> [put.fname EXCEPT !.gz = auto_compress]]

\* calls[i] belongs to the flush whose upload is calls[j]: no other upload lies
\* between them, and it names the table, or only the file, of that upload.
InFlushOf(i, j) ==
    /\ j < i
    /\ calls[j].op = "PUT"
    /\ \A k \in (j + 1)..(i - 1) : calls[k].op # "PUT"
    /\ IF calls[i].op = "REMOVE"
       THEN calls[i].files = << StoredAs(calls[j]) >>
       ELSE calls[i].table = calls[j].prefix

C3_State ==
    \A op \in TableActions :
        /\ TriggerOf(op) = "never" => ~HasCall(op)
        /\ TriggerOf(op) = "flush" =>
              \A i \in 1..Len(calls) :
                  calls[i].op = op => \E j \in 1..Len(calls) : InFlushOf(i, j)
        /\ TriggerOf(op) = "finish" =>
              \A i \in 1..Len(calls) :
                  calls[i].op = op =>
                      /\ last_op.name = "finish_export"
                      /\ table_buffers = <<>>
                      /\ \A j \in 1..Len(calls) : calls[j].op = "PUT" => j < i

C3_Step ==
    (last_op'.name = "finish_export" /\ table_buffers = <<>>) =>
        /\ \A op \in TableActions :
              TriggerOf(op) = "flush" => \A i \in 1..Len(calls') : calls'[i].op # op
        /\ (\A op \in TableActions : TriggerOf(op) # "finish") => calls' = <<>>

\* C3: a table action is performed only at the event its trigger names: never
\* with "never"; with "flush" only inside the flush of a buffer, right after
\* its upload, so that finish_export with no open buffer does not perform it
\* (and issues no connector call when no trigger is "finish"); with "finish"
\* only in finish_export, after every upload of the flush pass.
C3_TriggersRespected == [](C3_State) /\ [][C3_Step]_vars

\* finish_export has uploaded a buffer and created its table inside the flush,
\* then populated it in the finish pass.
C3_Witness ==
    /\ last_op.name = "finish_export"
    /\ create_tables_on = "flush"
    /\ populate_tables_on = "finish"
    /\ clear_stage_on = "never"
    /\ Len(calls) = 3
    /\ calls[1].op = "PUT"
    /\ calls[2].op = "CREATE"
    /\ calls[3].op = "COPY"

AllOn(event) ==
    /\ create_tables_on = event
    /\ populate_tables_on = event
    /\ clear_stage_on = event

\* column resolution for table t raises "no valid columns" in this state
ResolutionFails(t) ==
    get_column_types(Cur, t).st.raised = "SnowflakeStageExporterError"

\* calls[i] is an upload followed by the three statements of its destination
\* and by nothing else of that flush.
FlushComplete(i) ==
    /\ i + 3 <= Len(calls)
    /\ calls[i + 1].op = "CREATE"
    /\ calls[i + 1].table = calls[i].prefix
    /\ calls[i + 2].op = "COPY"
    /\ calls[i + 2].table = calls[i].prefix
    /\ calls[i + 2].files = SubSeq(FilesOf(calls[i].prefix), 1, calls[i].fname.batch_n)
    /\ calls[i + 3].op = "REMOVE"
    /\ calls[i + 3].files = << StoredAs(calls[i]) >>
    /\ i + 4 <= Len(calls) => calls[i + 4].op = "PUT"

C4_State ==
    AllOn("flush") =>
        /\ Len(calls) > 0 => calls[1].op = "PUT"
        /\ \A i \in 1..Len(calls) :
              calls[i].op = "PUT" =>
                  \/ /\ raised = "none"
                     /\ FlushComplete(i)
                     /\ StoredAs(calls[i]) = FilesOf(calls[i].prefix)[calls[i].fname.batch_n]
                  \/ /\ raised = "SnowflakeStageExporterError"
                     /\ IF i = Len(calls)
                        THEN ResolutionFails(calls[i].prefix)
                        ELSE FlushComplete(i)

\* every buffer open when flush_all_table_buffers or finish_export is called
\* is uploaded by the call, in the order the buffers were opened
C4_Step ==
    (AllOn("flush") /\ last_op'.name \in {"flush_all_table_buffers", "finish_export"}
        /\ raised' = "none") =>
        /\ table_buffers' = <<>>
        /\ Len(calls') = 4 * Len(table_buffers)
        /\ \A k \in 1..Len(table_buffers) :
              /\ calls'[4 * k - 3].op = "PUT"
              /\ calls'[4 * k - 3].prefix = table_buffers[k][1]

AllFiles == Flatten([i \in 1..Len(exported_fpaths) |-> exported_fpaths[i][2]])

\* the destinations with staged files, in the order of their first flush
Destinations == DictKeys(exported_fpaths)

\* the uploads of finish_export: one per buffer open before the call, in order
FinishUploads ==
    /\ table_buffers' = <<>>
    /\ Len(calls') >= Len(table_buffers)
    /\ \A k \in 1..Len(table_buffers) :
          /\ calls'[k].op = "PUT"
          /\ calls'[k].prefix = table_buffers[k][1]

\* the three phases after the first n calls, over the destinations with
\* staged files
PhasesAfter(n) ==
    /\ Len(calls) - n = 2 * Len(Destinations) + (IF Len(Destinations) > 0 THEN 1 ELSE 0)
    /\ \A k \in 1..Len(Destinations) :
          /\ calls[n + k].op = "CREATE"
          /\ calls[n + k].table = Destinations[k]
          /\ calls[n + Len(Destinations) + k].op = "COPY"
          /\ calls[n + Len(Destinations) + k].table = Destinations[k]
          /\ calls[n + Len(Destinations) + k].files = FilesOf(Destinations[k])
    /\ Len(Destinations) > 0 =>
          /\ calls[Len(calls)].op = "REMOVE"
          /\ calls[Len(calls)].files = AllFiles

\* after the first n calls, finish_export stopped at the CREATE of the first
\* destination without a valid column
StoppedAfter(n) ==
    /\ Len(calls) - n < Len(Destinations)
    /\ \A k \in 1..(Len(calls) - n) :
          /\ calls[n + k].op = "CREATE"
          /\ calls[n + k].table = Destinations[k]
    /\ ResolutionFails(Destinations[Len(calls) - n + 1])

FinishStep == AllOn("finish") /\ last_op'.name = "finish_export"

\* C5 as stated: finish_export with the three triggers on "finish" uploads
\* every open buffer, then creates every destination's table, then copies,
\* then removes all the staged files.
C5_Original ==
    [][FinishStep =>
          /\ FinishUploads
          /\ \E n \in 0..Cardinality(Tables) : n = Len(table_buffers) /\ PhasesAfter(n)']_vars

\* C5 (amended): finish_export with the three triggers on "finish" and no
\* connector error first uploads every open buffer; then, when every
\* destination with staged files has a valid column, it issues one CREATE
\* TABLE per destination, then one COPY per destination listing all its files,
\* then one REMOVE of all the staged files; when some destination has no valid
\* column it raises SnowflakeStageExporterError at that destination's CREATE,
\* after the CREATEs of the destinations before it, and issues no COPY and no
\* REMOVE.
C5_FinishPhases ==
    [][FinishStep =>
          /\ FinishUploads
          /\ raised' \in {"none", "SnowflakeStageExporterError"}
          /\ \E n \in 0..Cardinality(Tables) :
                /\ n = Len(table_buffers)
                /\ raised' = "none" => PhasesAfter(n)'
                /\ raised' # "none" => StoppedAfter(n)']_vars

\* finish_export has uploaded two buffers and gone through the three phases
\* for two destinations, one of which has two staged files.
C5_Witness ==
    /\ AllOn("finish")
    /\ last_op.name = "finish_export"
    /\ raised = "none"
    /\ Len(calls) = 7
    /\ calls[2].op = "PUT"
    /\ calls[7].op = "REMOVE"
    /\ Len(calls[7].files) = 3

\* the COPY statements of the last API call for destination t, in order
CopiesOf(t) == SelectSeq(calls, LAMBDA c : c.op = "COPY" /\ c.table = t)

\* the file references the COPY statements for t list, in statement order
CopiedFiles(t) == Flatten([i \in 1..Len(CopiesOf(t)) |-> CopiesOf(t)[i].files])

\* the references under which the files of t were uploaded, in upload order
UploadedRefs(t) ==
    With(UploadsOf(t), LAMBDA ups :
        [i \in 1..Len(ups) |-> [ups[i].fpath EXCEPT !.fname.gz = auto_compress]])

\* C6: after a finish pass with populate_tables_on "finish" that ran to its
\* end, for every destination the COPY statements list, concatenated, exactly
\* the references of the files uploaded for it during the whole session, in
\* upload order, each once and none of another destination; every statement
\* lists between 1 and 1000 references and every statement but the last
\* lists exactly 1000.
C6_CopyChunks ==
    (last_op.name = "finish_export" /\ populate_tables_on = "finish"
        /\ raised = "none") =>
    \A t \in Tables :
        With(CopiesOf(t), LAMBDA copies :
        With(CopiedFiles(t), LAMBDA listed :
            /\ listed = UploadedRefs(t)
            /\ listed = FilesOf(t)
            /\ Cardinality(SeqToSet(listed)) = Len(listed)
            /\ \A i \in 1..Len(listed) : listed[i].prefix = t
            /\ \A i \in 1..Len(copies) :
                  /\ Len(copies[i].files) >= 1
                  /\ Len(copies[i].files) <= 1000
                  /\ i < Len(copies) => Len(copies[i].files) = 1000))

\* a finish pass that splits the 1001 files of A into COPY statements of 1000
\* and 1 references, next to the single COPY of B
C6_Witness ==
    /\ last_op.name = "finish_export" /\ raised = "none"
    /\ Len(CopiesOf("A")) = 2
    /\ Len(CopiesOf("A")[1].files) = 1000
    /\ Len(CopiesOf("A")[2].files) = 1
    /\ Len(CopiesOf("B")) = 1

\* ------------------------------------------- column resolution, observed
\* the kinds of the non-null values field f has in the records items
KindsIn(items, f) ==
    UNION { { items[n][i][2] :
                i \in { k \in 1..Len(items[n]) :
                          items[n][k][1] = f /\ items[n][k][2] # "null" } } :
            n \in 1..Len(items) }

\* the kinds of the non-null values field f had in the records exported to t
ObservedKinds(t, f) == KindsIn(ArrivedItems(t), f)

\* the column types of the values field f has in the records items
TypesIn(items, f) == { typemap(kind) : kind \in KindsIn(items, f) }

\* the column types observed for field f of t
ObservedTypes(t, f) == TypesIn(ArrivedItems(t), f)

\* the names of the non-null fields of a record, in the record's order
NonNullFields(item) ==
    With(SelectSeq(item, LAMBDA pair : pair[2] # "null"),
         LAMBDA kept : [i \in 1..Len(kept) |-> kept[i][1]])

\* the elements of q, each at its first occurrence only
FirstOccurrences(q) ==
    With({ i \in 1..Len(q) : \A j \in 1..(i - 1) : q[j] # q[i] },
         LAMBDA firsts :
             [k \in 1..Cardinality(firsts) |->
                 q[CHOOSE i \in firsts : Cardinality({ j \in firsts : j < i }) = k - 1]])

\* the fields with a non-null value in the records items, in the order of
\* their first non-null value
FieldsIn(items) ==
    FirstOccurrences(Flatten([n \in 1..Len(items) |-> NonNullFields(items[n])]))

\* the fields of t that had a non-null value, in first-observation order
ObservedFields(t) == FieldsIn(ArrivedItems(t))

\* the column of field f given the types its values had
ColumnOf(f, types) ==
    << f, IF Cardinality(types) = 1 THEN CHOOSE ty \in types : TRUE ELSE "VARIANT" >>

\* the columns the records items call for: one per field with values of a
\* single type, and one VARIANT per field with values of several types when
\* varying value types are allowed
ColumnsFor(items) ==
    With(SelectSeq(FieldsIn(items),
                   LAMBDA f : Cardinality(TypesIn(items, f)) = 1
                              \/ allow_varying_value_types),
         LAMBDA kept :
             [i \in 1..Len(kept) |-> ColumnOf(kept[i], TypesIn(items, kept[i]))])

\* the columns the records exported to t call for
ExpectedColumns(t) == ColumnsFor(ArrivedItems(t))

NoPredefined(t) == ~DictHas(predefined_column_types, t)

\* C7 as stated: a field of a destination without predefined types seen with
\* an integer in one record and a floating-point number in another is left
\* out of the table's CREATE TABLE when varying value types are not allowed,
\* and is typed VARIANT in it when they are.
C7_Original ==
    \A t \in Tables, f \in {"a", "b"} :
        (NoPredefined(t) /\ {"int", "float"} \subseteq ObservedKinds(t, f)) =>
            \A i \in 1..Len(calls) :
                (calls[i].op = "CREATE" /\ calls[i].table = t) =>
                    IF allow_varying_value_types
                    THEN DictGetDefault(calls[i].cols, f, "absent") = "VARIANT"
                    ELSE ~DictHas(calls[i].cols, f)

\* C8: for a destination without predefined column types, get_column_types
\* returns, and CREATE TABLE and COPY name, exactly one column per field that
\* had a non-null value and is kept, in first-observation order: the single
\* observed type, or VARIANT for several types when varying value types are
\* allowed; a field with several types is left out without raising when they
\* are not allowed, and a field that was always null is never a column.
C8_ResolvedColumns ==
    \A t \in Tables :
        NoPredefined(t) =>
            With(ExpectedColumns(t), LAMBDA expected :
            With(get_column_types(Cur, t), LAMBDA r :
                /\ r.columns = expected
                /\ expected # <<>> => r.st.raised = "none"
                /\ \A i \in 1..Len(calls) :
                      /\ (calls[i].op = "CREATE" /\ calls[i].table = t) =>
                            calls[i].cols = expected
                      /\ (calls[i].op = "COPY" /\ calls[i].table = t) =>
                            calls[i].cols = DictKeys(expected)))

\* a table created with column b only: a was seen with two types and dropped
C8_Witness ==
    /\ last_op.name = "finish_export" /\ raised = "none"
    /\ NoPredefined("B") /\ ~allow_varying_value_types
    /\ Cardinality(ObservedTypes("B", "a")) = 2
    /\ \E i \in 1..Len(calls) :
          /\ calls[i].op = "CREATE" /\ calls[i].table = "B"
          /\ calls[i].cols = << <<"b", "NUMBER">> >>

\* C9: for a destination with predefined column types and
\* ignore_unexpected_fields true, get_column_types returns the predefined
\* mapping as it is, whatever records were exported: CREATE TABLE declares
\* exactly the predefined fields with their predefined types, COPY names
\* exactly them, and no API call changes the predefined mapping.
C9_State ==
    \A t \in Tables :
        (ignore_unexpected_fields
            /\ Len(DictGetDefault(predefined_column_types, t, <<>>)) > 0) =>
            With(DictGet(predefined_column_types, t), LAMBDA predefined :
            With(get_column_types(Cur, t), LAMBDA r :
                /\ r.columns = predefined
                /\ r.st.raised = "none"
                /\ r.st.predefined_column_types = predefined_column_types
                /\ \A i \in 1..Len(calls) :
                      /\ (calls[i].op = "CREATE" /\ calls[i].table = t) =>
                            calls[i].cols = predefined
                      /\ (calls[i].op = "COPY" /\ calls[i].table = t) =>
                            calls[i].cols = DictKeys(predefined)))

C9_Step ==
    ignore_unexpected_fields => predefined_column_types' = predefined_column_types

C9_PredefinedOnly == [](C9_State) /\ [][C9_Step]_vars

\* table A created as predefined (a VARCHAR, z NUMBER) although its records
\* had a as a number, the unexpected field b, and never z
C9_Witness ==
    /\ last_op.name = "finish_export" /\ raised = "none"
    /\ ignore_unexpected_fields
    /\ "NUMBER" \in ObservedTypes("A", "a")
    /\ ObservedTypes("A", "b") # {}
    /\ ObservedTypes("A", "z") = {}
    /\ \E i \in 1..Len(calls) :
          /\ calls[i].op = "CREATE" /\ calls[i].table = "A"
          /\ calls[i].cols = << <<"a", "VARCHAR">>, <<"z", "NUMBER">> >>
    /\ \E i \in 1..Len(calls) :
          /\ calls[i].op = "COPY" /\ calls[i].table = "A"
          /\ calls[i].cols = <<"a", "z">>

\* the outcome of a call that raised SnowflakeStageExporterError before
\* issuing any statement
RaisedNoColumns(s) == s.raised = "SnowflakeStageExporterError" /\ s.calls = <<>>

\* C10: for a destination without predefined types whose records call for no
\* column (every observed field had several types and varying types are not
\* allowed, or no field ever had a non-null value), create_table raises
\* SnowflakeStageExporterError without issuing CREATE TABLE, populate_table
\* raises it without issuing COPY, and finish_export raises it with no CREATE
\* TABLE and no COPY for that destination.
C10_NoValidColumns ==
    \A t \in Tables :
        (NoPredefined(t) /\ ExpectedColumns(t) = <<>>) =>
            /\ RaisedNoColumns(create_table(Cur, t))
            /\ DictHas(exported_fpaths, t) => RaisedNoColumns(populate_table(Cur, t))
            /\ (last_op.name = "finish_export" /\ DictHas(exported_fpaths, t)) =>
                  /\ raised = "SnowflakeStageExporterError"
                  /\ \A i \in 1..Len(calls) :
                        calls[i].op \in {"CREATE", "COPY"} => calls[i].table # t

\* finish_export raised after creating table A: the only field of B that had
\* a value was dropped for its two types
C10_Witness ==
    /\ last_op.name = "finish_export"
    /\ raised = "SnowflakeStageExporterError"
    /\ DictHas(exported_fpaths, "B") /\ NoPredefined("B")
    /\ ObservedFields("B") # <<>>
    /\ ExpectedColumns("B") = <<>>
    /\ \E i \in 1..Len(calls) : calls[i].op = "CREATE" /\ calls[i].table = "A"

\* the records exported to t call for at least one column, or t has
\* predefined types
HasValidColumns(t) == ~NoPredefined(t) \/ ExpectedColumns(t) # <<>>

\* C11 as stated: when finish_export runs with two destinations staged, one
\* without valid columns and the other with valid columns, the table of the
\* other is created and populated with all its staged files, whatever the
\* order of the two.
C11_Original ==
    last_op.name = "finish_export" =>
        \A bad \in Tables, good \in Tables :
            (/\ DictHas(exported_fpaths, bad) /\ ~HasValidColumns(bad)
             /\ DictHas(exported_fpaths, good) /\ HasValidColumns(good)) =>
                /\ \E i \in 1..Len(calls) :
                      calls[i].op = "CREATE" /\ calls[i].table = good
                /\ CopiedFiles(good) = FilesOf(good)

\* C12 as stated: when export_item raises because of the kind of a value
\* (TypeError from json.dumps, KeyError from typemap), every buffer open
\* before the call has its contents unchanged, the staged-file lists and the
\* type records are unchanged, and the call issued no upload and no statement.
C12_Original ==
    [][(last_op'.name = "export_item" /\ raised' \in {"TypeError", "KeyError"}) =>
          /\ \A t \in SeqToSet(DictKeys(table_buffers)) :
                /\ DictHas(table_buffers', t)
                /\ DictGet(table_buffers', t) = DictGet(table_buffers, t)
          /\ exported_fpaths' = exported_fpaths
          /\ recorded_coltypes' = recorded_coltypes
          /\ calls' = <<>>]_vars

\* the configuration is one the constructor must refuse: a trigger outside
\* finish/flush/never, a stage not starting with "@" or holding a "/", or a
\* predefined entry whose column mapping is None or empty
InvalidConfiguration(kwargs) ==
    \/ kwargs.create_tables_on \notin {"finish", "flush", "never"}
    \/ kwargs.populate_tables_on \notin {"finish", "flush", "never"}
    \/ kwargs.clear_stage_on \notin {"finish", "flush", "never"}
    \/ Len(kwargs.stage) = 0
    \/ kwargs.stage[1] # "@"
    \/ "/" \in SeqToSet(kwargs.stage)
    \/ \E i \in 1..Len(kwargs.predefined_column_types.entries) :
          \/ kwargs.predefined_column_types.entries[i][2].none
          \/ kwargs.predefined_column_types.entries[i][2].columns = <<>>

C13_State ==
    (last_op.name = "__init__" /\ InvalidConfiguration(last_op.kwargs)) =>
        /\ raised = "ValueError"
        /\ conn = "none"
        /\ calls = <<>>

C13_Step ==
    (last_op.name = "__init__" /\ InvalidConfiguration(last_op.kwargs)) =>
        UNCHANGED vars

\* C13: constructing the exporter with an invalid configuration raises
\* ValueError with no connection created, and nothing can be called after
\* it: no record is exported, no statement issued.
C13_InvalidConfiguration == [](C13_State) /\ [][C13_Step]_vars

\* the constructor refused a stage with a path element, all else being valid
C13_Witness ==
    /\ last_op.name = "__init__"
    /\ raised = "ValueError"
    /\ conn = "none"
    /\ last_op.kwargs.stage = << "@", "x", "/", "z" >>
    /\ last_op.kwargs.create_tables_on = "flush"
    /\ last_op.kwargs.clear_stage_on = "never"
    /\ last_op.kwargs.predefined_column_types.none

\* the uploads of the last API call for destination t, in order
PutsOf(t) == SelectSeq(calls, LAMBDA c : c.op = "PUT" /\ c.prefix = t)

\* the references a COPY or REMOVE of the last API call names
NamedFiles ==
    UNION { SeqToSet(calls[i].files) :
              i \in { k \in 1..Len(calls) : calls[k].op \in {"COPY", "REMOVE"} } }

C14_State ==
    /\ \A f \in NamedFiles : f \in SeqToSet(FilesOf(f.prefix))
    /\ auto_compress => \A f \in NamedFiles : f.fname.gz

C14_Step ==
    \A t \in Tables :
        DictGetDefault(exported_fpaths', t, <<>>) =
            FilesOf(t) \o [i \in 1..Len(PutsOf(t)') |-> StoredAs(PutsOf(t)'[i])]

\* C14: every API call appends to a destination's staged-file list, for each
\* of its uploads in order, the upload prefix joined with the name the
\* connector returned; every COPY and REMOVE names only recorded references,
\* and with a compressing connector none names a file as it was requested.
C14_RecordedReferences == [](C14_State) /\ [][C14_Step]_vars

\* a flush with a compressing connector: uploaded as requested, then copied
\* and removed under the returned name
C14_Witness ==
    /\ auto_compress
    /\ \E i \in 1..Len(calls) : calls[i].op = "PUT" /\ ~calls[i].fname.gz
    /\ \E i \in 1..Len(calls) :
          /\ calls[i].op = "COPY"
          /\ \E k \in 1..Len(calls[i].files) : calls[i].files[k].fname.gz
    /\ \E i \in 1..Len(calls) :
          /\ calls[i].op = "REMOVE"
          /\ \E k \in 1..Len(calls[i].files) : calls[i].files[k].fname.gz

\* the sizes in bytes of the lines of the records exported to t, in order
LineSizes(t) ==
    [i \in 1..Len(ArrivedItems(t)) |-> Len(SerializedLines(ArrivedItems(t))[i])]

RECURSIVE SumOf(_)
SumOf(sizes) == IF Len(sizes) = 0 THEN 0 ELSE Head(sizes) + SumOf(Tail(sizes))

\* ceil(total / threshold)
CeilDiv(total, threshold) == (total + threshold - 1) \div threshold

RECURSIVE FilesFor(_, _, _)
\* the number of files that lines of these sizes fill when a file is closed
\* as soon as it holds at least threshold bytes, and the rest is a last file
FilesFor(sizes, held, threshold) ==
    IF Len(sizes) = 0 THEN (IF held > 0 THEN 1 ELSE 0)
    ELSE IF held + Head(sizes) >= threshold
    THEN 1 + FilesFor(Tail(sizes), 0, threshold)
    ELSE FilesFor(Tail(sizes), held + Head(sizes), threshold)

\* C15 as stated: after finish_export a destination that received T > 0 bytes
\* has ceil(T / max_file_size) staged files.
C15_Original ==
    last_op.name = "finish_export" =>
        \A t \in Tables :
            SumOf(LineSizes(t)) > 0 =>
                Len(FilesOf(t)) = CeilDiv(SumOf(LineSizes(t)), max_file_size)

\* C15: after finish_export a destination that received T > 0 bytes has as
\* many staged files as whole lines fill when a file is closed as soon as it
\* holds at least max_file_size bytes: at least one, and at most
\* ceil(T / max_file_size).
C15_FileCount ==
    last_op.name = "finish_export" =>
        \A t \in Tables :
            SumOf(LineSizes(t)) > 0 =>
                /\ Len(FilesOf(t)) = FilesFor(LineSizes(t), 0, max_file_size)
                /\ Len(FilesOf(t)) >= 1
                /\ Len(FilesOf(t)) <= CeilDiv(SumOf(LineSizes(t)), max_file_size)

\* lines of 9, 11 and 9 bytes under a threshold of 10: two files, not three
C15_Witness ==
    /\ last_op.name = "finish_export"
    /\ max_file_size = 10
    /\ LineSizes("A") = << 9, 11, 9 >>
    /\ Len(FilesOf("A")) = 2

\* ------------------------------------------------------ pipeline, observed
\* the table actions of the last call that a trigger on "finish" stands for
OnFinishCalls ==
    { i \in 1..Len(calls) :
        calls[i].op \in TableActions /\ TriggerOf(calls[i].op) = "finish" }

\* every open buffer of this state has an upload in the next
AllBuffersUploaded ==
    \A k \in 1..Len(table_buffers) :
        \E i \in 1..Len(calls') :
            calls'[i].op = "PUT" /\ calls'[i].prefix = table_buffers[k][1]

\* the actions whose trigger is "finish" were issued once each, after every
\* upload: one CREATE TABLE per destination, every staged file of a
\* destination in its COPY statements, one REMOVE of all the staged files
OnFinishOnce ==
    /\ create_tables_on = "finish" =>
          \A k \in 1..Len(Destinations) :
              Cardinality({ i \in 1..Len(calls) :
                              /\ calls[i].op = "CREATE"
                              /\ calls[i].table = Destinations[k] }) = 1
    /\ populate_tables_on = "finish" =>
          \A k \in 1..Len(Destinations) :
              CopiedFiles(Destinations[k]) = FilesOf(Destinations[k])
    /\ (clear_stage_on = "finish" /\ AllFiles # <<>>) =>
          /\ Cardinality({ i \in 1..Len(calls) : calls[i].op = "REMOVE" }) = 1
          /\ \A i \in 1..Len(calls) :
                calls[i].op = "REMOVE" => calls[i].files = AllFiles
    /\ \A i \in 1..Len(calls) :
          calls[i].op = "PUT" => \A j \in OnFinishCalls : i < j

ClosingStep == last_op'.name = "on_spider_close"

OpenTables == DictKeys(table_buffers)

\* the destinations of the uploads of the last call, in the order of the calls
PutTables ==
    [i \in 1..Len(SelectSeq(calls, LAMBDA c : c.op = "PUT")) |->
        SelectSeq(calls, LAMBDA c : c.op = "PUT")[i].prefix]

\* the destinations of the CREATE TABLE statements of the last call, in order
CreatedTables ==
    [i \in 1..Len(SelectSeq(calls, LAMBDA c : c.op = "CREATE")) |->
        SelectSeq(calls, LAMBDA c : c.op = "CREATE")[i].table]

\* no type is predefined for t and the type record of t holds no field that
\* gives a column: varying types are not allowed and every field recorded
\* for t has a number of types other than one
NoColumnRecorded(t) ==
    /\ NoPredefined(t)
    /\ \A i \in 1..Len(DictGetDefault(recorded_coltypes, t, <<>>)) :
          /\ ~allow_varying_value_types
          /\ Cardinality(DictGetDefault(recorded_coltypes, t, <<>>)[i][2]) # 1

\* an action on "flush" needs the columns of t and t has none
FlushBlocked(t) ==
    /\ create_tables_on = "flush" \/ populate_tables_on = "flush"
    /\ NoColumnRecorded(t)

\* the place, among the open buffers of this state, of the first one whose
\* flush cannot complete: its upload fails in the connector, or an action on
\* "flush" finds no column for its destination; 0 when there is none
StopsAt(put_error) ==
    IF \E k \in 1..Len(OpenTables) : put_error \/ FlushBlocked(OpenTables[k])
    THEN CHOOSE k \in 1..Len(OpenTables) :
            /\ put_error \/ FlushBlocked(OpenTables[k])
            /\ \A j \in 1..(k - 1) : ~(put_error \/ FlushBlocked(OpenTables[j]))
    ELSE 0

\* the place, among the destinations with staged files, of the first one
\* without a column; 0 when there is none
FirstUnresolved ==
    IF \E k \in 1..Len(Destinations) : NoColumnRecorded(Destinations[k])
    THEN CHOOSE k \in 1..Len(Destinations) :
            /\ NoColumnRecorded(Destinations[k])
            /\ \A j \in 1..(k - 1) : ~NoColumnRecorded(Destinations[j])
    ELSE 0

\* the table actions of a close on "finished" whose uploads all completed:
\* they follow the uploads; when no action on "finish" needs columns, or every
\* destination has one, each is issued once and nothing is raised; otherwise
\* they end at the first destination without a column
FinishOutcome ==
    /\ \A i \in 1..Len(calls) :
          calls[i].op = "PUT" => \A j \in OnFinishCalls : i < j
    /\ IF /\ create_tables_on = "finish" \/ populate_tables_on = "finish"
          /\ FirstUnresolved # 0
       THEN /\ raised = "SnowflakeStageExporterError"
            /\ create_tables_on = "finish" =>
                  /\ CreatedTables = SubSeq(Destinations, 1, FirstUnresolved - 1)
                  /\ populate_tables_on = "finish" => ~HasCall("COPY")
            /\ (create_tables_on # "finish") =>
                  \A k \in 1..Len(Destinations) :
                      CopiedFiles(Destinations[k]) =
                          IF k < FirstUnresolved THEN FilesOf(Destinations[k])
                          ELSE <<>>
            /\ clear_stage_on = "finish" => ~HasCall("REMOVE")
       ELSE /\ raised = "none"
            /\ OnFinishOnce

C16_StoppedAtBuffer ==
    /\ last_op.name = "on_spider_close" /\ ~last_op.put_error
    /\ create_tables_on = "flush"
    /\ raised = "SnowflakeStageExporterError"
    /\ Len(PutTables) = 1
    /\ Len(table_buffers) = 1
    /\ OnFinishCalls = {}

\* a close on "finished" with tables created on "finish" and the second of
\* two destinations without a column: one upload, one CREATE TABLE for the
\* first destination, then the error
C16_StoppedAtDestination ==
    /\ last_op.name = "on_spider_close" /\ last_op.reason = "finished"
    /\ create_tables_on = "finish"
    /\ raised = "SnowflakeStageExporterError"
    /\ FirstUnresolved = 2
    /\ Len(PutTables) >= 1
    /\ CreatedTables = << Destinations[1] >>

\* C17 as stated: on_spider_close calls close() exactly once on every path:
\* after it the connection is closed, and the close is the last call made.
C17_Original ==
    last_op.name = "on_spider_close" =>
        /\ conn = "closed"
        /\ Cardinality({ i \in 1..Len(calls) : calls[i].op = "CLOSE" }) = 1
        /\ calls[Len(calls)].op = "CLOSE"

\* ------------------------------------------------------- flushes, observed
\* the size of the open buffer of a destination
BufferSize(buffers, t) == SumLen(DictGetDefault(buffers, t, <<>>))

\* the line the export_item call of this step has written
WrittenLine(t) ==
    json_dumps(ArrivedItems(t)'[Len(ArrivedItems(t)')]) \o "\n"

\* this step is an export_item call that has returned
ExportReturned == last_op'.name = "export_item" /\ raised' = "none"

\* this step is a direct flush_table_buffer call
FlushStep == last_op'.name = "flush_table_buffer"

\* the exporter's own state: buffers, staged-file lists, type records
ExporterState == << table_buffers, exported_fpaths, recorded_coltypes >>

\* C18 as stated: after any export_item call returns, every open buffer is
\* smaller than max_file_size; a buffer that reached the threshold (equality
\* included) was flushed in the same call into exactly one staged file holding
\* the records appended to the destination since its previous flush.
C18_Original ==
    [][ExportReturned =>
          /\ \A t \in Tables : BufferSize(table_buffers', t) < max_file_size
          /\ \A t \in Tables :
                (/\ last_op'.table = t
                 /\ BufferSize(table_buffers, t) + Len(WrittenLine(t)) >= max_file_size)
                =>
                /\ Len(CallsOf({"PUT"})') = 1
                /\ Len(FilesOf(t)') = Len(FilesOf(t)) + 1
                /\ Len(uploaded') = Len(uploaded) + 1
                /\ uploaded'[Len(uploaded')] =
                       [fpath |-> FilesOf(t)'[Len(FilesOf(t)')],
                        lines |-> OpenLines(t) \o << WrittenLine(t) >>]]_vars

\* C19 as stated: flush_table_buffer on a destination whose buffer is empty
\* or absent raises no error, uploads nothing, adds no staged-file reference,
\* consumes no batch number and fires no trigger action: the exporter state
\* is unchanged.
C19_Original ==
    [][(FlushStep /\ \E t \in Tables : last_op'.table = t /\ OpenLines(t) = <<>>)
          => /\ raised' = "none"
             /\ calls' = <<>>
             /\ ExporterState' = ExporterState]_vars

\* C20 as stated: after a flush_table_buffer call, returned or raised, failed
\* upload or failed table action included, the destination has no open buffer.
C20_Original ==
    [][FlushStep => \A t \in Tables :
                        last_op'.table = t => ~DictHas(table_buffers', t)]_vars

\* ---------------------------------------------------- resolution, observed
\* this step is a direct get_column_types call
ResolveStep == last_op'.name = "get_column_types"

\* C21 as stated: a get_column_types call changes no exporter state, the
\* configured predefined mapping included, and two calls with no record
\* exported in between return the same mapping.
C21_Original ==
    [][ResolveStep =>
          /\ predefined_column_types' = predefined_column_types
          /\ ExporterState' = ExporterState
          /\ (last_op.name = "get_column_types" /\ last_op.table = last_op'.table
              /\ raised = "none" /\ raised' = "none")
             => last_op'.columns = last_op.columns]_vars

\* --------------------------------------------------- type record, observed
\* the fields the type record of t has an entry for
RecordedFields(recorded, t) == SeqToSet(DictKeys(DictGetDefault(recorded, t, <<>>)))

\* the type set the type record of t holds for field f
RecordedTypes(recorded, t, f) ==
    DictGetDefault(DictGetDefault(recorded, t, <<>>), f, {})

FieldNames == {"a", "b"}

\* the record the export_item call of this step has written to t
WrittenItem(t) == ArrivedItems(t)'[Len(ArrivedItems(t)')]

\* C22 as stated: the type set recorded for a (destination, field) pair is
\* the set of types of the non-null values of the field over the records
\* whose export_item call to the destination has returned: a returning call
\* adds the types of its record's non-null fields to its destination, and
\* any other call, a raising export_item, a flush or finish_export, leaves
\* every type set and every entry as it was; a field without a non-null
\* value has no entry.
C22_Original ==
    [][\A t \in Tables, f \in FieldNames :
          IF ExportReturned /\ last_op'.table = t
          THEN /\ RecordedTypes(recorded_coltypes', t, f) =
                     RecordedTypes(recorded_coltypes, t, f)
                     \cup TypesIn(<< WrittenItem(t) >>, f)
               /\ f \in RecordedFields(recorded_coltypes', t) <=>
                     \/ f \in RecordedFields(recorded_coltypes, t)
                     \/ KindsIn(<< WrittenItem(t) >>, f) # {}
          ELSE /\ RecordedTypes(recorded_coltypes', t, f) =
                     RecordedTypes(recorded_coltypes, t, f)
               /\ f \in RecordedFields(recorded_coltypes', t) <=>
                     f \in RecordedFields(recorded_coltypes, t)]_vars

\* ------------------------------------------------ destinations, observed
\* the destinations a connector call names: the prefix of an upload, the
\* table of a statement, the prefixes of the files it lists
NamedIn(c) ==
    CASE c.op = "PUT" -> { c.prefix }
      [] c.op = "CREATE" -> { c.table }
      [] c.op = "COPY" -> { c.table } \cup { c.files[k].prefix : k \in 1..Len(c.files) }
      [] c.op = "REMOVE" -> { c.files[k].prefix : k \in 1..Len(c.files) }
      [] OTHER -> {}

\* what the exporter holds for destination t: its open buffer if any, its
\* staged-file list if any, its type record if any
HeldFor(buffers, fpaths, recorded, t) ==
    << DictHas(buffers, t), DictGetDefault(buffers, t, <<>>),
       DictHas(fpaths, t), DictGetDefault(fpaths, t, <<>>),
       DictHas(recorded, t), DictGetDefault(recorded, t, <<>>) >>

C23_Step ==
    last_op'.name = "export_item" =>
        /\ \A t \in Tables \ { last_op'.table } :
              HeldFor(table_buffers', exported_fpaths', recorded_coltypes', t) =
                  HeldFor(table_buffers, exported_fpaths, recorded_coltypes, t)
        /\ \A i \in 1..Len(calls') : NamedIn(calls'[i]) \subseteq { last_op'.table }

\* C23: an export_item call routed to a destination leaves the open buffer,
\* the staged-file list (hence the next batch number) and the type record of
\* every other destination as they were, creates no buffer for another
\* destination, and every upload and statement it issues, those of a
\* threshold flush and of its on-flush actions included, names that
\* destination and its files only.
C23_Independent == [][C23_Step]_vars

\* an export to B flushed B and created, populated and cleared it while A
\* had an open buffer
C23_Witness ==
    /\ last_op.name = "export_item" /\ last_op.table = "B"
    /\ raised = "none"
    /\ AllOn("flush")
    /\ Len(calls) = 4
    /\ calls[4].op = "REMOVE"
    /\ Len(OpenLines("A")) = 1
    /\ ~DictHas(table_buffers, "B")

\* C24 as stated: when an export_item call crosses the threshold with
\* create_tables_on or populate_tables_on set to "flush", the CREATE TABLE
\* and COPY issued inside the call use the columns that the records exported
\* to the destination so far call for, the record that triggered the flush
\* included, and "no valid columns" is raised only when those records call
\* for no column.
C24_Original ==
    [][(/\ last_op'.name = "export_item"
        /\ \E i \in 1..Len(calls') : calls'[i].op = "PUT"
        /\ create_tables_on = "flush" \/ populate_tables_on = "flush")
       =>
       \A t \in { last_op'.table } :
          /\ ColumnsFor(ArrivedItems(t)') # <<>> =>
                raised' # "SnowflakeStageExporterError"
          /\ \A i \in 1..Len(calls') :
                /\ calls'[i].op = "CREATE" =>
                      calls'[i].cols = ColumnsFor(ArrivedItems(t)')
                /\ calls'[i].op = "COPY" =>
                      calls'[i].cols = DictKeys(ColumnsFor(ArrivedItems(t)'))]_vars

\* ------------------------------------------------- stage cleanup, observed
\* the files for which a REMOVE precedes call i in the calls cs of an API call
RemovedBefore(cs, i) ==
    UNION { SeqToSet(cs[j].files) :
              j \in { k \in 1..(i - 1) : cs[k].op = "REMOVE" } }

\* C25 as stated: no COPY lists a staged file for which a REMOVE was issued
\* earlier in the session, by an earlier API call or earlier in the same one.
C25_Original ==
    [][\A i \in 1..Len(calls') :
          calls'[i].op = "COPY" =>
              \A k \in 1..Len(calls'[i].files) :
                  calls'[i].files[k] \notin (removed \cup RemovedBefore(calls', i))]_vars

\* C26 as stated: an open buffer always holds at least one record and every
\* uploaded file holds at least one serialized record.
C26_Original ==
    /\ \A k \in 1..Len(table_buffers) : table_buffers[k][2] # <<>>
    /\ \A k \in 1..Len(uploaded) : uploaded[k].lines # <<>>

====
